---- MODULE Spec2Model ----
(***************************************************************************)
(* A model of cli-auth: the credential store (storage.py), the token       *)
(* lifecycle wrapper (storage.with_access_token / refresh), the commands   *)
(* that call the provider API (commands.py) and the PKCE login flow with   *)
(* its loopback callback server (commands.cmd_login, oauth.CodeHandler).   *)
(*                                                                         *)
(* Five specifications share the variables:                                *)
(*   SpecStore  the storage API driven by a caller: with_access_token,     *)
(*              refresh, write_tokens step by step, the consumer commands, *)
(*              logout, the clock, and a process crash at any step;        *)
(*   SpecExpiry is_expired alone, on bundles and times around its margin;  *)
(*   Spec       one login attempt (cmd_login) with the callback server     *)
(*              thread, the browser driver and the requests it receives;   *)
(*   SpecLive   Spec with the main thread's step past httpd.shutdown()     *)
(*              weakly fair, for the claims about termination;             *)
(*   SpecApp    the application: app.main, the login it starts when it     *)
(*              finds no bundle, and the menu with its commands.           *)
(***************************************************************************)
EXTENDS Integers, Sequences, FiniteSets, TLC

VARIABLES
    clock,      \* wall clock, the value time.time() returns (storage.now)
    fs,         \* the file system: path -> file (CONFIG_PATH and CONFIG_PATH.tmp)
    umask,      \* the process umask, fixed at process start
    wpc,        \* position inside write_tokens
    wtok,       \* the argument of the running write_tokens
    pc,         \* position of the main thread
    tok,        \* the local `tok` of with_access_token / refresh / a command
    issued,     \* the provider's counter of issued tokens (each token is fresh)
    nOps,       \* number of operations started so far (bounded)
    call,       \* history of the running/last operation (what it did)
    apiLog,     \* history: the provider API requests the commands sent, each with
                \* the outcome of the operation that ran before the command
    hist,       \* history: bundle at CONFIG_PATH when the last write_tokens began
    environ,    \* os.environ: the names defined in it
    loc,        \* the locals of cmd_login
    H_STATE,      \* CodeHandler.STATE
    RESULT,     \* CodeHandler.RESULT
    DONE_EVENT, \* CodeHandler.DONE_EVENT: "None", or the Event, "unset" or "set"
    httpd,      \* the HTTPServer: its socket, its port, serve_forever running,
                \* and busy: its one thread is inside a handler that waits for
                \* the request of a connected client
    extHolds,   \* another process holds the preferred port
    nReq,       \* number of requests the server has handled (bounded)
    lastResp,   \* status of the server's last response (0: none yet)
    firstCb     \* history: the first /callback request the server handled

storeVars == <<clock, fs, umask, wpc, wtok, tok, issued, nOps, call, apiLog, hist>>

loginVars == <<environ, loc, H_STATE, RESULT, DONE_EVENT, httpd, extHolds, nReq,
               lastResp, firstCb>>

(***************************************************************************)
(* Bounds of the model.                                                    *)
(***************************************************************************)
MaxTime == 2
MaxOps == 2
MaxRequests == 2
\* json.dump's text reaches the file in chunks of this many tokens
DumpChunk == 4
\* seconds that pass in a run of the expiry test
MaxSpan == 3

(***************************************************************************)
(* Program constants.                                                      *)
(***************************************************************************)
SKEW == 60
StatusOK == 200
StatusBad == 400

\* Python's None and JSON null
None == 0

\* Paths: CONFIG_PATH (config.py) and the temporary path of write_tokens.
CONFIG_PATH == "config.json"

TmpPathInPlace == CONFIG_PATH

TmpPath == "config.json.tmp"

Paths == {CONFIG_PATH, "config.json.tmp"}

(***************************************************************************)
(* Permission bits as sets; open(path, "w") creates with 0666 & ~umask.    *)
(***************************************************************************)
Mode666 == {"ur", "uw", "gr", "gw", "or", "ow"}
Mode600 == {"ur", "uw"}
Umask022 == {"gw", "ow"}
Umask077 == {"gr", "gw", "gx", "or", "ow", "ox"}

CreateMode(um) == Mode666 \ um

OwnerOnly(mode) == mode \subseteq {"ur", "uw", "ux"}

Absent == [exists |-> FALSE, text |-> <<>>, mode |-> {}]

(***************************************************************************)
(* The credential bundle is a dict; json.dump writes its items in order,   *)
(* between braces; json.load accepts only a complete text.                 *)
(***************************************************************************)
Keys == <<"access_token", "refresh_token", "token_type", "scope", "expires_in",
          "obtained_at", "client_id", "redirect_uri", "scopes", "discord_user">>

EmptyDict == [k \in {} |-> None]

HasKey(d, k) == k \in DOMAIN d

\* dict.get(k, default)
Get(d, k, default) == IF k \in DOMAIN d THEN d[k] ELSE default

\* the keys of a dict in the order json.dump writes them
KeysOf(d) == LET Present(k) == k \in DOMAIN d IN SelectSeq(Keys, Present)

json_dump(d) == LET ks == KeysOf(d)
                IN  <<(<<"{", None>>)>>
                    \o [n \in 1..Len(ks) |-> <<ks[n], d[ks[n]]>>]
                    \o <<(<<"}", None>>)>>

WellFormed(text) ==
    /\ Len(text) >= 2
    /\ text[1][1] = "{"
    /\ text[Len(text)][1] = "}"
    /\ \A i \in 2..(Len(text) - 1) : text[i][1] \notin {"{", "}"}

\* json.load: the dict, or JSONDecodeError
json_load(text) ==
    IF WellFormed(text)
    THEN [ok |-> TRUE,
          val |-> [k \in {text[i][1] : i \in 2..(Len(text) - 1)} |->
                     text[CHOOSE i \in 2..(Len(text) - 1) : text[i][1] = k][2]]]
    ELSE [ok |-> FALSE, val |-> EmptyDict]

\* read_tokens: "none" (FileNotFoundError), "dict", or "error" (json.load raised)
read_tokens ==
    IF ~fs[CONFIG_PATH].exists THEN [kind |-> "none", val |-> EmptyDict]
    ELSE IF json_load(fs[CONFIG_PATH].text).ok
         THEN [kind |-> "dict", val |-> json_load(fs[CONFIG_PATH].text).val]
         ELSE [kind |-> "error", val |-> EmptyDict]

\* Python truthiness of a dict-or-None and of a token value
Falsy(r) == r.kind = "none" \/ DOMAIN r.val = {}

now == clock

\* the comparison made strict: the boundary second counts as valid
is_expired_strict(t) == now > (Get(t, "obtained_at", 0) + Get(t, "expires_in", 0) - SKEW)

is_expired(t) == now >= (Get(t, "obtained_at", 0) + Get(t, "expires_in", 0) - SKEW)


(***************************************************************************)
(* Bundles and provider responses.  Token values are numbers, None is 0;   *)
(* the provider never issues the same token twice (the counter `issued`).  *)
(***************************************************************************)
Me == [id |-> "42", username |-> "user", global_name |-> "User", avatar |-> "a"]

Bundle(at, rt, ei, oa) ==
    [access_token |-> at, refresh_token |-> rt, token_type |-> "Bearer",
     scope |-> "identify guilds", expires_in |-> ei, obtained_at |-> oa,
     client_id |-> "cid", redirect_uri |-> "http://127.0.0.1:53682/callback",
     scopes |-> <<"identify", "guilds">>, discord_user |-> Me]

\* lifetimes the provider grants: shorter than the margin (expired at once) and
\* one second past it (valid in the second of issue only)
ExpiresIns == {SKEW - 1, SKEW + 1}

\* bundles an earlier login left in the store (tok.get("expires_in", 0): 0 when
\* the provider sent none; refresh_token None when it sent none)
InitBundles == {Bundle(1, rt, ei, 0) : rt \in {None, 1},
                                        ei \in {0, SKEW + 1, SKEW + MaxTime + 1}}

\* the JSON bodies of a 200 answer of the token endpoint: access_token, expires_in
\* and token_type always; refresh_token (a new token) and scope optional
Responses ==
    LET base == {[access_token |-> issued + 1, token_type |-> "Bearer", expires_in |-> ei] :
                    ei \in ExpiresIns}
        Ext(d, k, v) == [x \in DOMAIN d \cup {k} |-> IF x = k THEN v ELSE d[x]]
        withRt == base \cup {Ext(d, "refresh_token", issued + 1) : d \in base}
    IN  withRt \cup {Ext(d, "scope", "identify") : d \in withRt}

Truthy(v) == v # None

(***************************************************************************)
(* History of one operation of the storage API.                            *)
(***************************************************************************)
NewCall(op) ==
    [op |-> op, outcome |-> "running", expired |-> FALSE, hadRT |-> FALSE,
     posts |-> 0, status |-> 0, j |-> EmptyDict, refreshTime |-> 0,
     oldTok |-> EmptyDict, checkTime |-> 0, fnCalled |-> FALSE, fnArg |-> None,
     fnValid |-> FALSE, fnStored |-> None]

Raise(c, err) == [c EXCEPT !.outcome = err]

(***************************************************************************)
(* write_tokens(tok), storage.py 17-26, one action per statement.          *)
(***************************************************************************)
\* the caller's `write_tokens(b)`: enters the function
BeginWrite(b) ==
    /\ wpc' = "open"
    /\ wtok' = b
    /\ hist' = [oldExists |-> fs[CONFIG_PATH].exists,
                oldText |-> fs[CONFIG_PATH].text,
                new |-> b]

\* os.makedirs; tmp = CONFIG_PATH + ".tmp"; open(tmp, "w") creates or truncates
WtOpen ==
    /\ pc # "crashed"
    /\ wpc = "open"
    /\ fs' = [fs EXCEPT ![TmpPath] =
                [exists |-> TRUE, text |-> <<>>,
                 mode |-> IF fs[TmpPath].exists THEN fs[TmpPath].mode
                          ELSE CreateMode(umask)]]
    /\ wpc' = "dump"
    /\ UNCHANGED <<clock, umask, wtok, pc, tok, issued, nOps, call, apiLog, hist>>
    /\ UNCHANGED loginVars

\* json.dump(tok, f): the text reaches the file chunk by chunk; leaving the
\* with block closes the file with the whole text in it
WtDump ==
    /\ pc # "crashed"
    /\ wpc = "dump"
    /\ LET full == json_dump(wtok)
           k == IF Len(fs[TmpPath].text) + DumpChunk < Len(full)
                THEN Len(fs[TmpPath].text) + DumpChunk ELSE Len(full)
       IN  /\ fs' = [fs EXCEPT ![TmpPath].text = SubSeq(full, 1, k)]
           /\ wpc' = IF k = Len(full) THEN "replace" ELSE "dump"
    /\ UNCHANGED <<clock, umask, wtok, pc, tok, issued, nOps, call, apiLog, hist>>
    /\ UNCHANGED loginVars

\* a rename that does nothing: the new text stays in the temporary file
os_replace_noop(f, src, dst) == f

\* os.replace(tmp, CONFIG_PATH): an atomic rename
os_replace(f, src, dst) ==
    IF src = dst THEN f
    ELSE [f EXCEPT ![dst] = f[src], ![src] = Absent]

WtReplace ==
    /\ pc # "crashed"
    /\ wpc = "replace"
    /\ fs' = os_replace(fs, TmpPath, CONFIG_PATH)
    /\ wpc' = "chmod"
    /\ UNCHANGED <<clock, umask, wtok, pc, tok, issued, nOps, call, apiLog, hist>>
    /\ UNCHANGED loginVars

\* try: os.chmod(CONFIG_PATH, 0o600) except Exception: pass
WtChmod(ok) ==
    /\ pc # "crashed"
    /\ wpc = "chmod"
    /\ fs' = IF ok THEN [fs EXCEPT ![CONFIG_PATH].mode = Mode600] ELSE fs
    /\ wpc' = "ret"
    /\ UNCHANGED <<clock, umask, wtok, pc, tok, issued, nOps, call, apiLog, hist>>
    /\ UNCHANGED loginVars

(***************************************************************************)
(* refresh(tok), storage.py 33-55.                                         *)
(***************************************************************************)
\* refresh's `updated` without the fallback to the prior refresh_token
refresh_updated_drops_refresh(t, j) ==
    [k \in DOMAIN t \cup {"scope"} |->
        CASE k = "access_token" -> j["access_token"]
          [] k = "refresh_token" -> Get(j, "refresh_token", None)
          [] k = "expires_in" -> j["expires_in"]
          [] k = "token_type" -> j["token_type"]
          [] k = "scope" -> Get(j, "scope", Get(t, "scope", ""))
          [] k = "obtained_at" -> now
          [] OTHER -> t[k]]

\* the bundle built anew from the answer: the fields of the answer only
refresh_updated_tokens_only(t, j) ==
    [k \in {"access_token", "refresh_token", "expires_in", "token_type", "scope",
            "obtained_at"} |->
        CASE k = "access_token" -> j["access_token"]
          [] k = "refresh_token" -> Get(j, "refresh_token", t["refresh_token"])
          [] k = "expires_in" -> j["expires_in"]
          [] k = "token_type" -> j["token_type"]
          [] k = "scope" -> Get(j, "scope", Get(t, "scope", ""))
          [] OTHER -> now]

\* updated = {**tok, "access_token": j["access_token"], ...}
refresh_updated(t, j) ==
    [k \in DOMAIN t \cup {"scope"} |->
        CASE k = "access_token" -> j["access_token"]
          [] k = "refresh_token" -> Get(j, "refresh_token", t["refresh_token"])
          [] k = "expires_in" -> j["expires_in"]
          [] k = "token_type" -> j["token_type"]
          [] k = "scope" -> Get(j, "scope", Get(t, "scope", ""))
          [] k = "obtained_at" -> now
          [] OTHER -> t[k]]

\* if not tok.get("refresh_token"): raise RuntimeError
RefreshNoToken ==
    /\ pc = "refresh"
    /\ ~Truthy(Get(tok, "refresh_token", None))
    /\ pc' = "idle"
    /\ call' = Raise(call, "NoRefreshToken")
    /\ UNCHANGED <<clock, fs, umask, wpc, wtok, tok, issued, nOps, apiLog, hist>>
    /\ UNCHANGED loginVars

\* r = requests.post(DISCORD_TOKEN, ...); status != 200 raises
RefreshPostFails ==
    /\ pc = "refresh"
    /\ Truthy(Get(tok, "refresh_token", None))
    /\ pc' = "idle"
    /\ call' = [call EXCEPT !.posts = @ + 1, !.status = StatusBad,
                            !.outcome = "RefreshFailed"]
    /\ UNCHANGED <<clock, fs, umask, wpc, wtok, tok, issued, nOps, apiLog, hist>>
    /\ UNCHANGED loginVars

\* status 200: j = r.json(); updated = {...}; write_tokens(updated) begins
RefreshPostOK(j) ==
    /\ pc = "refresh"
    /\ Truthy(Get(tok, "refresh_token", None))
    /\ pc' = "refresh_write"
    /\ issued' = issued + 1
    /\ call' = [call EXCEPT !.posts = @ + 1, !.status = StatusOK, !.j = j,
                            !.refreshTime = now]
    /\ BeginWrite(refresh_updated(tok, j))
    /\ UNCHANGED <<clock, fs, umask, tok, nOps, apiLog>>
    /\ UNCHANGED loginVars

\* write_tokens returned; return updated  (and `tok = refresh(tok)`, line 63)
RefreshReturn ==
    /\ pc = "refresh_write"
    /\ wpc = "ret"
    /\ wpc' = "idle"
    /\ tok' = wtok
    /\ pc' = "wat_fn"
    /\ UNCHANGED <<clock, fs, umask, wtok, issued, nOps, call, apiLog, hist>>
    /\ UNCHANGED loginVars

(***************************************************************************)
(* with_access_token(fn), storage.py 58-64.                                *)
(***************************************************************************)
\* tok = read_tokens(); if not tok: raise RuntimeError("Not logged in...")
WatRead ==
    /\ pc = "idle"
    /\ nOps < MaxOps
    /\ nOps' = nOps + 1
    /\ LET r == read_tokens
           c == NewCall("with_access_token")
       IN  IF r.kind = "error"
           THEN /\ pc' = "idle" /\ tok' = EmptyDict
                /\ call' = Raise(c, "JSONDecodeError")
           ELSE IF Falsy(r)
           THEN /\ pc' = "idle" /\ tok' = EmptyDict
                /\ call' = Raise(c, "NotLoggedIn")
           ELSE /\ pc' = "wat_check" /\ tok' = r.val
                /\ call' = [c EXCEPT !.oldTok = r.val]
    /\ UNCHANGED <<clock, fs, umask, wpc, wtok, issued, apiLog, hist>>
    /\ UNCHANGED loginVars

\* every call refreshes, whatever the expiry test would say
wat_needs_refresh_always(t) == TRUE

\* the expiry test left out: the stored token is used as it is
wat_needs_refresh_never(t) == FALSE

\* if is_expired(tok): tok = refresh(tok)
wat_needs_refresh(t) == is_expired(t)

WatCheck ==
    /\ pc = "wat_check"
    /\ pc' = IF wat_needs_refresh(tok) THEN "refresh" ELSE "wat_fn"
    /\ call' = [call EXCEPT !.expired = is_expired(tok),
                            !.checkTime = now,
                            !.hadRT = Truthy(Get(tok, "refresh_token", None))]
    /\ UNCHANGED <<clock, fs, umask, wpc, wtok, tok, issued, nOps, apiLog, hist>>
    /\ UNCHANGED loginVars

\* return fn(tok["access_token"])
WatFn ==
    /\ pc = "wat_fn"
    /\ pc' = "idle"
    /\ call' = [call EXCEPT !.outcome = "returned",
                            !.fnCalled = TRUE,
                            !.fnArg = tok["access_token"],
                            !.fnValid = ~is_expired(tok),
                            !.fnStored = Get(read_tokens.val, "access_token", None)]
    /\ UNCHANGED <<clock, fs, umask, wpc, wtok, tok, issued, nOps, apiLog, hist>>
    /\ UNCHANGED loginVars

(***************************************************************************)
(* The consumers, commands.py 186-207.                                     *)
(***************************************************************************)
\* tok = read_tokens(); if not tok: raise; requests.get(url, Bearer tok[access_token])
Command(name) ==
    /\ pc = "idle"
    /\ nOps < MaxOps
    /\ nOps' = nOps + 1
    /\ LET r == read_tokens
           c == NewCall(name)
       IN  IF r.kind = "error"
           THEN call' = Raise(c, "JSONDecodeError") /\ apiLog' = apiLog
           ELSE IF Falsy(r)
           THEN call' = Raise(c, "NotLoggedIn") /\ apiLog' = apiLog
           ELSE /\ call' = [c EXCEPT !.outcome = "returned", !.oldTok = r.val,
                                     !.expired = is_expired(r.val)]
                /\ apiLog' = apiLog \cup
                      {[cmd |-> name, token |-> r.val["access_token"],
                        expired |-> is_expired(r.val), prev |-> call.outcome]}
    /\ UNCHANGED <<clock, fs, umask, wpc, wtok, pc, tok, issued, hist>>
    /\ UNCHANGED loginVars

cmd_whoami == Command("cmd_whoami")

cmd_guilds == Command("cmd_guilds")

\* a logout that prints its message and leaves the file where it is
cmd_logout_keeps_file ==
    /\ pc = "idle"
    /\ nOps < MaxOps
    /\ nOps' = nOps + 1
    /\ call' = [NewCall("cmd_logout") EXCEPT !.outcome = "returned"]
    /\ UNCHANGED <<clock, fs, umask, wpc, wtok, pc, tok, issued, apiLog, hist>>
    /\ UNCHANGED loginVars

\* if os.path.exists(CONFIG_PATH): os.remove(CONFIG_PATH)
cmd_logout ==
    /\ pc = "idle"
    /\ nOps < MaxOps
    /\ nOps' = nOps + 1
    /\ fs' = IF fs[CONFIG_PATH].exists THEN [fs EXCEPT ![CONFIG_PATH] = Absent] ELSE fs
    /\ call' = [NewCall("cmd_logout") EXCEPT !.outcome = "returned"]
    /\ UNCHANGED <<clock, umask, wpc, wtok, pc, tok, issued, apiLog, hist>>
    /\ UNCHANGED loginVars

(***************************************************************************)
(* The environment of the storage API: time passes; the process may die at *)
(* any statement of write_tokens, and a later run starts from the files    *)
(* it left.                                                                *)
(***************************************************************************)
Tick ==
    /\ pc # "crashed"
    /\ clock < MaxTime
    /\ clock' = clock + 1
    /\ UNCHANGED <<fs, umask, wpc, wtok, pc, tok, issued, nOps, call, apiLog, hist>>
    /\ UNCHANGED loginVars

Crash ==
    /\ pc # "crashed"
    /\ wpc \in {"open", "dump", "replace", "chmod", "ret"}
    /\ pc' = "crashed"
    /\ call' = Raise(call, "crashed")
    /\ UNCHANGED <<clock, fs, umask, wpc, wtok, tok, issued, nOps, apiLog, hist>>
    /\ UNCHANGED loginVars

Restart ==
    /\ pc = "crashed"
    /\ nOps < MaxOps
    /\ nOps' = nOps + 1
    /\ pc' = "idle"
    /\ wpc' = "idle"
    /\ tok' = EmptyDict
    /\ wtok' = EmptyDict
    /\ UNCHANGED <<clock, fs, umask, issued, call, apiLog, hist>>
    /\ UNCHANGED loginVars

(***************************************************************************)
(* The login flow's state when no login has run in the process.            *)
(***************************************************************************)
\* None for the string-valued optionals (query parameters, class attributes)
NoneS == "None"

TruthyS(v) == v # NoneS

NoLocals ==
    [client_id |-> NoneS, redirect_uri |-> NoneS, verifier |-> NoneS,
     challenge |-> NoneS, state |-> NoneS, port |-> 0, url_code |-> NoneS,
     waited |-> NoneS, code |-> NoneS, j |-> EmptyDict, obtained_at |-> 0,
     posts |-> 0, status |-> 0, raised |-> NoneS,
     url |-> EmptyDict, sent |-> EmptyDict]

NoReq == [path |-> NoneS, code |-> NoneS, error |-> NoneS, state |-> NoneS]

\* class CodeHandler: STATE = None; RESULT = {"code": None, "error": None}; DONE_EVENT = None
LoginIdle ==
    /\ environ = {"CLIENT_ID", "REDIRECT_URI"}
    /\ loc = NoLocals
    /\ H_STATE = NoneS
    /\ RESULT = [code |-> NoneS, error |-> NoneS]
    /\ DONE_EVENT = "None"
    /\ httpd = [sock |-> "none", port |-> 0, serving |-> FALSE, busy |-> FALSE]
    /\ extHolds = FALSE
    /\ nReq = 0
    /\ lastResp = 0
    /\ firstCb = NoReq

InitStore ==
    /\ clock = 0
    /\ \E f \in {Absent} \cup
               {[exists |-> TRUE, text |-> json_dump(b), mode |-> Mode600] : b \in InitBundles} :
          /\ fs = [p \in Paths |-> IF p = CONFIG_PATH THEN f ELSE Absent]
          /\ hist = [oldExists |-> f.exists, oldText |-> f.text,
                     new |-> json_load(f.text).val]
    /\ umask \in {Umask022, Umask077}
    /\ wpc = "idle"
    /\ wtok = EmptyDict
    /\ pc = "idle"
    /\ tok = EmptyDict
    /\ issued = 1
    /\ nOps = 0
    /\ call = NewCall("none")
    /\ apiLog = {}
    /\ LoginIdle

NextStore ==
    \/ WatRead
    \/ WatCheck
    \/ RefreshNoToken
    \/ RefreshPostFails
    \/ \E j \in Responses : RefreshPostOK(j)
    \/ RefreshReturn
    \/ WatFn
    \/ WtOpen
    \/ WtDump
    \/ WtReplace
    \/ \E ok \in BOOLEAN : WtChmod(ok)
    \/ cmd_whoami
    \/ cmd_guilds
    \/ cmd_logout
    \/ Tick
    \/ Crash
    \/ Restart

vars == <<clock, fs, umask, wpc, wtok, pc, tok, issued, nOps, call, apiLog, hist,
          environ, loc, H_STATE, RESULT, DONE_EVENT, httpd, extHolds, nReq,
          lastResp, firstCb>>

SpecStore == InitStore /\ [][NextStore]_vars

(***************************************************************************)
(* is_expired(tok) on its own, storage.py 29-31: a caller evaluates it on  *)
(* a bundle at the current time, and time passes between the calls.        *)
(***************************************************************************)
\* the clock values at which a run starts: just before each expiry threshold
\* of ExpiryBundles (obtained_at + expires_in - 60 is 0, 1, 60 and 4540)
ExpiryStarts == {0, SKEW - 2, 4538}

\* bundles a login obtained at time 0 or 1000, with lifetimes around the margin
ExpiryBundles == {Bundle(1, 1, ei, oa) :
                     ei \in {0, SKEW - 1, SKEW, SKEW + 1, 2 * SKEW, 3600},
                     oa \in {0, 1000}}

\* expired = is_expired(tok)
IsExpiredCall ==
    /\ pc = "idle"
    /\ pc' = "checked"
    /\ call' = [NewCall("is_expired") EXCEPT !.outcome = "returned",
                                             !.oldTok = tok,
                                             !.checkTime = now,
                                             !.expired = is_expired(tok)]
    /\ UNCHANGED <<clock, fs, umask, wpc, wtok, tok, issued, nOps, apiLog, hist>>
    /\ UNCHANGED loginVars

\* a second passes before the next call
TickExpiry ==
    /\ pc = "checked"
    /\ nOps < MaxSpan
    /\ nOps' = nOps + 1
    /\ clock' = clock + 1
    /\ pc' = "idle"
    /\ UNCHANGED <<fs, umask, wpc, wtok, tok, issued, call, apiLog, hist>>
    /\ UNCHANGED loginVars

InitExpiry ==
    /\ clock \in ExpiryStarts
    /\ tok \in ExpiryBundles
    /\ fs = [p \in Paths |-> Absent]
    /\ hist = [oldExists |-> FALSE, oldText |-> <<>>, new |-> EmptyDict]
    /\ umask = Umask022
    /\ wpc = "idle"
    /\ wtok = EmptyDict
    /\ pc = "idle"
    /\ issued = 1
    /\ nOps = 0
    /\ call = NewCall("none")
    /\ apiLog = {}
    /\ LoginIdle

NextExpiry ==
    \/ IsExpiredCall
    \/ TickExpiry

SpecExpiry == InitExpiry /\ [][NextExpiry]_vars


(***************************************************************************)
(* One login attempt: cmd_login (commands.py 93-176), the callback server  *)
(* (oauth.CodeHandler) on its own thread, the browser driver, and what     *)
(* the process's environment can do meanwhile.                             *)
(***************************************************************************)
PREFERRED_PORT == 53682

\* the port the OS assigns to bind(("127.0.0.1", 0))
EphemeralPort == 49152

ClientId == "cid"

RedirectUri == "http://127.0.0.1:53682/callback"

\* the port a redirect URI names (urllib.parse of the values REDIRECT_URI takes)
UriPort(uri) == IF uri = RedirectUri THEN PREFERRED_PORT ELSE 0

Verifiers == {"v1", "v2"}

\* b64url(sha256(verifier)): a function of the verifier alone, injective on Verifiers
gen_code_challenge(verifier) == <<"S256", verifier>>

\* find_free_port(preferred): the preferred port if a probe socket can bind it
find_free_port(preferred) == IF extHolds THEN EphemeralPort ELSE preferred

Codes == {"ABC", "XYZ"}

Errors == {"access_denied"}

States == {"xyz", "bad"}

\* the GET requests a client can send to the listener
Requests ==
    {[path |-> "/callback", code |-> c, error |-> e, state |-> st] :
        c \in Codes \cup {NoneS}, e \in Errors \cup {NoneS}, st \in States \cup {NoneS}}
    \cup {[path |-> "/favicon.ico", code |-> NoneS, error |-> NoneS, state |-> NoneS]}

\* the positions at which a login attempt has ended
Terminal == {"exit_autherror", "exit_timeout", "exit_exchange", "exit_lookup",
             "exc", "interrupted", "done"}

\* CodeHandler.do_GET, lines 24-29: what a /callback request does to RESULT
do_GET_result(R, req) ==
    IF TruthyS(req.error) THEN [R EXCEPT !.error = req.error]
    ELSE [R EXCEPT !.code = req.code]

\* do_GET without the test of the path: every request is taken for the callback
do_GET_any_path(req) ==
    /\ httpd.serving
    /\ nReq < MaxRequests
    /\ nReq' = nReq + 1
    /\ RESULT' = do_GET_result(RESULT, req)
    /\ DONE_EVENT' = IF DONE_EVENT # "None" THEN "set" ELSE DONE_EVENT
    /\ lastResp' = 200
    /\ firstCb' = IF firstCb = NoReq THEN req ELSE firstCb
    /\ httpd' = [httpd EXCEPT !.busy = FALSE]
    /\ UNCHANGED <<pc, environ, loc, H_STATE, extHolds>>
    /\ UNCHANGED storeVars

\* CodeHandler.do_GET on the server thread, while serve_forever runs (the
\* request of a new connection, or of the client the handler was waiting for)
do_GET(req) ==
    /\ httpd.serving
    /\ nReq < MaxRequests
    /\ nReq' = nReq + 1
    /\ IF req.path # "/callback"
       THEN /\ lastResp' = 404
            /\ UNCHANGED <<RESULT, DONE_EVENT, firstCb>>
       ELSE /\ RESULT' = do_GET_result(RESULT, req)
            /\ DONE_EVENT' = IF DONE_EVENT # "None" THEN "set" ELSE DONE_EVENT
            /\ lastResp' = 200
            /\ firstCb' = IF firstCb = NoReq THEN req ELSE firstCb
    /\ httpd' = [httpd EXCEPT !.busy = FALSE]
    /\ UNCHANGED <<pc, environ, loc, H_STATE, extHolds>>
    /\ UNCHANGED storeVars

\* a client connects to the listener and sends nothing: serve_forever accepts
\* the connection and the handler blocks reading the request line (HTTPServer
\* has one thread and CodeHandler sets no timeout)
ClientConnects ==
    /\ httpd.serving
    /\ ~httpd.busy
    /\ httpd' = [httpd EXCEPT !.busy = TRUE]
    /\ UNCHANGED <<pc, environ, loc, H_STATE, RESULT, DONE_EVENT, extHolds, nReq,
                   lastResp, firstCb>>
    /\ UNCHANGED storeVars

\* the connected client closes the connection without a request: the handler
\* returns and serve_forever goes on
ClientCloses ==
    /\ httpd.busy
    /\ httpd' = [httpd EXCEPT !.busy = FALSE]
    /\ UNCHANGED <<pc, environ, loc, H_STATE, RESULT, DONE_EVENT, extHolds, nReq,
                   lastResp, firstCb>>
    /\ UNCHANGED storeVars

\* the two values read with defaults (os.environ.get): the login goes on
\* whatever the environment holds
LoginEnv_defaults ==
    /\ pc = "login"
    /\ loc' = [loc EXCEPT !.client_id = ClientId, !.redirect_uri = RedirectUri]
    /\ pc' = "pkce"
    /\ UNCHANGED <<environ, H_STATE, RESULT, DONE_EVENT, httpd, extHolds, nReq,
                   lastResp, firstCb>>
    /\ UNCHANGED storeVars

\* client_id = os.environ["CLIENT_ID"]; redirect_uri = os.environ["REDIRECT_URI"]
LoginEnv ==
    /\ pc = "login"
    /\ IF {"CLIENT_ID", "REDIRECT_URI"} \subseteq environ
       THEN /\ loc' = [loc EXCEPT !.client_id = ClientId, !.redirect_uri = RedirectUri]
            /\ pc' = "pkce"
       ELSE /\ loc' = [loc EXCEPT !.raised = "KeyError"]
            /\ pc' = "exc"
    /\ UNCHANGED <<environ, H_STATE, RESULT, DONE_EVENT, httpd, extHolds, nReq,
                   lastResp, firstCb>>
    /\ UNCHANGED storeVars

\* verifier = gen_code_verifier(); challenge = gen_code_challenge(verifier); state = "xyz"
LoginPkce(v) ==
    /\ pc = "pkce"
    /\ loc' = [loc EXCEPT !.verifier = v, !.challenge = gen_code_challenge(v),
                          !.state = "xyz"]
    /\ pc' = "port"
    /\ UNCHANGED <<environ, H_STATE, RESULT, DONE_EVENT, httpd, extHolds, nReq,
                   lastResp, firstCb>>
    /\ UNCHANGED storeVars

\* port = find_free_port(53682)
LoginFindPort ==
    /\ pc = "port"
    /\ loc' = [loc EXCEPT !.port = find_free_port(PREFERRED_PORT)]
    /\ pc' = "bind"
    /\ UNCHANGED <<environ, H_STATE, RESULT, DONE_EVENT, httpd, extHolds, nReq,
                   lastResp, firstCb>>
    /\ UNCHANGED storeVars

\* event = threading.Event(); CodeHandler.STATE/DONE_EVENT/RESULT = ...;
\* httpd = HTTPServer(("127.0.0.1", port), CodeHandler): binds and listens, or OSError
LoginBind ==
    /\ pc = "bind"
    /\ H_STATE' = loc.state
    /\ DONE_EVENT' = "unset"
    /\ RESULT' = [code |-> NoneS, error |-> NoneS]
    /\ IF loc.port = PREFERRED_PORT /\ extHolds
       THEN /\ pc' = "exc"
            /\ loc' = [loc EXCEPT !.raised = "OSError"]
            /\ httpd' = httpd
       ELSE /\ pc' = "start"
            /\ loc' = loc
            /\ httpd' = [sock |-> "listening", port |-> loc.port, serving |-> FALSE,
                         busy |-> FALSE]
    /\ UNCHANGED <<environ, extHolds, nReq, lastResp, firstCb>>
    /\ UNCHANGED storeVars

\* the query parameters of the authorization URL, lines 111-120
authorize_url(l) ==
    [client_id |-> l.client_id, response_type |-> "code",
     redirect_uri |-> l.redirect_uri, scope |-> "identify guilds",
     state |-> l.state, code_challenge |-> l.challenge,
     code_challenge_method |-> "S256"]

\* t = threading.Thread(target=httpd.serve_forever, daemon=True); t.start(); url = ...
LoginStartThread ==
    /\ pc = "start"
    /\ httpd' = [httpd EXCEPT !.serving = TRUE]
    /\ loc' = [loc EXCEPT !.url = authorize_url(loc)]
    /\ pc' = "browser"
    /\ UNCHANGED <<environ, H_STATE, RESULT, DONE_EVENT, extHolds, nReq,
                   lastResp, firstCb>>
    /\ UNCHANGED storeVars

\* final_url, _ = open_and_capture(url, redirect_uri); code = parse_qs(...).get("code")
LoginBrowserReturns(c) ==
    /\ pc = "browser"
    /\ loc' = [loc EXCEPT !.url_code = c, !.code = c]
    /\ pc' = "wait"
    /\ UNCHANGED <<environ, H_STATE, RESULT, DONE_EVENT, httpd, extHolds, nReq,
                   lastResp, firstCb>>
    /\ UNCHANGED storeVars

\* open_and_capture raises (the driver fails, page.wait_for_url times out)
LoginBrowserRaises ==
    /\ pc = "browser"
    /\ loc' = [loc EXCEPT !.raised = "BrowserError"]
    /\ pc' = "exc"
    /\ UNCHANGED <<environ, H_STATE, RESULT, DONE_EVENT, httpd, extHolds, nReq,
                   lastResp, firstCb>>
    /\ UNCHANGED storeVars

\* event.wait(timeout=300) returns True: the event is set
LoginWaitSet ==
    /\ pc = "wait"
    /\ DONE_EVENT = "set"
    /\ loc' = [loc EXCEPT !.waited = "set"]
    /\ pc' = "shutdown"
    /\ UNCHANGED <<environ, H_STATE, RESULT, DONE_EVENT, httpd, extHolds, nReq,
                   lastResp, firstCb>>
    /\ UNCHANGED storeVars

\* event.wait(timeout=300) returns False: 300 s passed with the event unset
LoginWaitTimeout ==
    /\ pc = "wait"
    /\ DONE_EVENT = "unset"
    /\ loc' = [loc EXCEPT !.waited = "timeout"]
    /\ pc' = "shutdown"
    /\ UNCHANGED <<environ, H_STATE, RESULT, DONE_EVENT, httpd, extHolds, nReq,
                   lastResp, firstCb>>
    /\ UNCHANGED storeVars

\* BaseServer.shutdown(): stops the serve_forever loop and waits for it; the
\* listening socket stays open (only server_close() closes it)
shutdown(h) == [h EXCEPT !.serving = FALSE]

\* httpd.shutdown(): sets the shutdown flag and waits until serve_forever has
\* left its loop, which it does between two requests, not inside a handler
LoginShutdown ==
    /\ pc = "shutdown"
    /\ ~httpd.busy
    /\ httpd' = shutdown(httpd)
    /\ pc' = "check"
    /\ UNCHANGED <<environ, loc, H_STATE, RESULT, DONE_EVENT, extHolds, nReq,
                   lastResp, firstCb>>
    /\ UNCHANGED storeVars

\* the two tests in the other order: a latched code is used even when an error
\* is latched too
LoginCheck_code_first ==
    /\ pc = "check"
    /\ IF TruthyS(RESULT.code)
       THEN /\ pc' = "exchange"
            /\ loc' = [loc EXCEPT !.code = RESULT.code]
       ELSE IF TruthyS(RESULT.error)
       THEN /\ pc' = "exit_autherror"
            /\ loc' = [loc EXCEPT !.raised = RESULT.error]
       ELSE /\ pc' = "exit_timeout"
            /\ loc' = [loc EXCEPT !.code = RESULT.code, !.raised = "timeout"]
    /\ UNCHANGED <<environ, H_STATE, RESULT, DONE_EVENT, httpd, extHolds, nReq,
                   lastResp, firstCb>>
    /\ UNCHANGED storeVars

\* if RESULT.get("error"): raise SystemExit; code = RESULT.get("code", code);
\* if not code: raise SystemExit("... (timeout).")
LoginCheck ==
    /\ pc = "check"
    /\ IF TruthyS(RESULT.error)
       THEN /\ pc' = "exit_autherror"
            /\ loc' = [loc EXCEPT !.raised = RESULT.error]
       ELSE IF ~TruthyS(RESULT.code)
       THEN /\ pc' = "exit_timeout"
            /\ loc' = [loc EXCEPT !.code = RESULT.code, !.raised = "timeout"]
       ELSE /\ pc' = "exchange"
            /\ loc' = [loc EXCEPT !.code = RESULT.code]
    /\ UNCHANGED <<environ, H_STATE, RESULT, DONE_EVENT, httpd, extHolds, nReq,
                   lastResp, firstCb>>
    /\ UNCHANGED storeVars

\* the form of the exchange with the verifier of another attempt
exchange_data_other_verifier(l) ==
    [grant_type |-> "authorization_code", client_id |-> l.client_id,
     code |-> l.code, redirect_uri |-> l.redirect_uri,
     code_verifier |-> CHOOSE v \in Verifiers : v # l.verifier]

\* data = {...}, lines 138-144: the form of the token exchange
exchange_data(l) ==
    [grant_type |-> "authorization_code", client_id |-> l.client_id,
     code |-> l.code, redirect_uri |-> l.redirect_uri,
     code_verifier |-> l.verifier]

\* a refused exchange is sent once more before the attempt gives up
LoginExchangeFails_retries ==
    /\ pc = "exchange"
    /\ loc' = [loc EXCEPT !.posts = @ + 1, !.status = StatusBad,
                          !.sent = exchange_data(loc),
                          !.raised = IF loc.posts = 0 THEN @
                                     ELSE "Token exchange failed"]
    /\ pc' = IF loc.posts = 0 THEN "exchange" ELSE "exit_exchange"
    /\ UNCHANGED <<environ, H_STATE, RESULT, DONE_EVENT, httpd, extHolds, nReq,
                   lastResp, firstCb>>
    /\ UNCHANGED storeVars

\* r = requests.post(DISCORD_TOKEN, data=data, timeout=30); status != 200:
\* raise SystemExit(f"Token exchange failed ({r.status_code}): {r.text}")
LoginExchangeFails ==
    /\ pc = "exchange"
    /\ loc' = [loc EXCEPT !.posts = @ + 1, !.status = StatusBad,
                          !.sent = exchange_data(loc),
                          !.raised = "Token exchange failed"]
    /\ pc' = "exit_exchange"
    /\ UNCHANGED <<environ, H_STATE, RESULT, DONE_EVENT, httpd, extHolds, nReq,
                   lastResp, firstCb>>
    /\ UNCHANGED storeVars

\* status 200: tok = r.json(); obtained_at = now()
LoginExchangeOK(j) ==
    /\ pc = "exchange"
    /\ loc' = [loc EXCEPT !.posts = @ + 1, !.status = StatusOK, !.j = j,
                          !.sent = exchange_data(loc), !.obtained_at = now]
    /\ issued' = issued + 1
    /\ pc' = "me"
    /\ UNCHANGED <<environ, H_STATE, RESULT, DONE_EVENT, httpd, extHolds, nReq,
                   lastResp, firstCb>>
    /\ UNCHANGED <<clock, fs, umask, wpc, wtok, tok, nOps, call, apiLog, hist>>

\* requests.post / requests.get raises (connection error, 30 s timeout)
LoginNetRaises ==
    /\ pc \in {"exchange", "me"}
    /\ loc' = [loc EXCEPT !.raised = "RequestException"]
    /\ pc' = "exc"
    /\ UNCHANGED <<environ, H_STATE, RESULT, DONE_EVENT, httpd, extHolds, nReq,
                   lastResp, firstCb>>
    /\ UNCHANGED storeVars

\* a refused user lookup is noted and the login goes on to store the tokens
LoginMeFails_persists ==
    /\ pc = "me"
    /\ loc' = [loc EXCEPT !.raised = "User lookup failed"]
    /\ pc' = "persist"
    /\ UNCHANGED <<environ, H_STATE, RESULT, DONE_EVENT, httpd, extHolds, nReq,
                   lastResp, firstCb>>
    /\ UNCHANGED storeVars

\* r_me = requests.get(DISCORD_ME, ...); status != 200 raises SystemExit
LoginMeFails ==
    /\ pc = "me"
    /\ loc' = [loc EXCEPT !.raised = "User lookup failed"]
    /\ pc' = "exit_lookup"
    /\ UNCHANGED <<environ, H_STATE, RESULT, DONE_EVENT, httpd, extHolds, nReq,
                   lastResp, firstCb>>
    /\ UNCHANGED storeVars

\* status 200: me = r_me.json()
LoginMeOK ==
    /\ pc = "me"
    /\ pc' = "persist"
    /\ UNCHANGED loginVars
    /\ UNCHANGED storeVars

\* bundle = {...}, lines 156-172
LoginBundle(l) ==
    [access_token |-> l.j["access_token"],
     refresh_token |-> Get(l.j, "refresh_token", None),
     token_type |-> Get(l.j, "token_type", "Bearer"),
     scope |-> Get(l.j, "scope", "identify guilds"),
     expires_in |-> Get(l.j, "expires_in", 0),
     obtained_at |-> l.obtained_at,
     client_id |-> l.client_id,
     redirect_uri |-> l.redirect_uri,
     scopes |-> <<"identify", "guilds">>,
     discord_user |-> Me]

\* write_tokens(bundle) is entered
LoginPersist ==
    /\ pc = "persist"
    /\ BeginWrite(LoginBundle(loc))
    /\ pc' = "login_write"
    /\ UNCHANGED loginVars
    /\ UNCHANGED <<clock, fs, umask, tok, issued, nOps, call, apiLog>>

\* write_tokens returned; print("Logged in as ..."); menu()
LoginWritten ==
    /\ pc = "login_write"
    /\ wpc = "ret"
    /\ wpc' = "idle"
    /\ pc' = "done"
    /\ UNCHANGED loginVars
    /\ UNCHANGED <<clock, fs, umask, wtok, tok, issued, nOps, call, apiLog, hist>>

\* Ctrl-C while cmd_login blocks in the browser driver or in event.wait:
\* KeyboardInterrupt unwinds to auth.py/app.py __main__, which prints
\* "Interrupted." and calls sys.exit(130)
Interrupt ==
    /\ pc \in {"browser", "wait"}
    /\ loc' = [loc EXCEPT !.raised = "KeyboardInterrupt"]
    /\ pc' = "interrupted"
    /\ UNCHANGED <<environ, H_STATE, RESULT, DONE_EVENT, httpd, extHolds, nReq,
                   lastResp, firstCb>>
    /\ UNCHANGED storeVars

\* the process ends after a failed attempt: the daemon thread dies and the OS
\* closes the socket
ProcessExit ==
    /\ pc \in Terminal \ {"done"}
    /\ pc' = "exited"
    /\ httpd' = [httpd EXCEPT !.serving = FALSE, !.busy = FALSE,
                              !.sock = IF @ = "listening" THEN "closed" ELSE @]
    /\ UNCHANGED <<environ, loc, H_STATE, RESULT, DONE_EVENT, extHolds, nReq,
                   lastResp, firstCb>>
    /\ UNCHANGED storeVars

\* another process binds or releases the preferred port (it cannot bind it while
\* this process listens on it; after the bind nothing reads the flag)
ExtToggle ==
    /\ pc \in {"login", "pkce", "port", "bind"}
    /\ extHolds' = ~extHolds
    /\ UNCHANGED <<pc, environ, loc, H_STATE, RESULT, DONE_EVENT, httpd, nReq,
                   lastResp, firstCb>>
    /\ UNCHANGED storeVars

Init ==
    /\ clock = 0
    /\ \E f \in {Absent,
                 [exists |-> TRUE, text |-> json_dump(Bundle(1, 1, SKEW + 1, 0)),
                  mode |-> Mode600]} :
          /\ fs = [p \in Paths |-> IF p = CONFIG_PATH THEN f ELSE Absent]
          /\ hist = [oldExists |-> f.exists, oldText |-> f.text,
                     new |-> json_load(f.text).val]
    /\ umask = Umask022
    /\ wpc = "idle"
    /\ wtok = EmptyDict
    /\ pc = "login"
    /\ tok = EmptyDict
    /\ issued = 1
    /\ nOps = 0
    /\ call = NewCall("none")
    /\ apiLog = {}
    /\ environ \in SUBSET {"CLIENT_ID", "REDIRECT_URI"}
    /\ loc = NoLocals
    /\ H_STATE = NoneS
    /\ RESULT = [code |-> NoneS, error |-> NoneS]
    /\ DONE_EVENT = "None"
    /\ httpd = [sock |-> "none", port |-> 0, serving |-> FALSE, busy |-> FALSE]
    /\ extHolds \in BOOLEAN
    /\ nReq = 0
    /\ lastResp = 0
    /\ firstCb = NoReq

Next ==
    \/ LoginEnv
    \/ \E v \in Verifiers : LoginPkce(v)
    \/ LoginFindPort
    \/ LoginBind
    \/ LoginStartThread
    \/ \E c \in Codes \cup {NoneS} : LoginBrowserReturns(c)
    \/ LoginBrowserRaises
    \/ LoginWaitSet
    \/ LoginWaitTimeout
    \/ LoginShutdown
    \/ LoginCheck
    \/ LoginExchangeFails
    \/ \E j \in Responses : LoginExchangeOK(j)
    \/ LoginNetRaises
    \/ LoginMeFails
    \/ LoginMeOK
    \/ LoginPersist
    \/ WtOpen
    \/ WtDump
    \/ WtReplace
    \/ \E ok \in BOOLEAN : WtChmod(ok)
    \/ LoginWritten
    \/ \E req \in Requests : do_GET(req)
    \/ Interrupt
    \/ ProcessExit
    \/ ExtToggle
    \/ ClientConnects
    \/ ClientCloses

Spec == Init /\ [][Next]_vars

\* the main thread goes on whenever httpd.shutdown() can return
SpecLive == Spec /\ WF_vars(LoginShutdown)

(***************************************************************************)
(* The application, app.py: main() reads the store, authenticates when it  *)
(* finds no bundle, and shows the menu (lib/util.menu), whose commands run *)
(* until the user logs out or leaves.                                      *)
(***************************************************************************)
\* the credential file a run of the application can find: none, a bundle that
\* is valid or expired at the start, an empty file, a text cut short
AppFiles ==
    {Absent}
    \cup {[exists |-> TRUE, text |-> json_dump(Bundle(1, 1, ei, 0)), mode |-> Mode600] :
             ei \in {0, SKEW + 1}}
    \cup {[exists |-> TRUE, text |-> t, mode |-> Mode600] :
             t \in {<<>>, SubSeq(json_dump(Bundle(1, 1, SKEW + 1, 0)), 1, 3)}}

\* tok = read_tokens(); if not tok: perform_authentication() else: print welcome; menu
MainRead ==
    /\ pc = "main"
    /\ LET r == read_tokens
           c == NewCall("main")
       IN  IF r.kind = "error"
           THEN /\ pc' = "exc" /\ tok' = EmptyDict
                /\ call' = Raise(c, "JSONDecodeError")
           ELSE IF Falsy(r)
           THEN /\ pc' = "login" /\ tok' = EmptyDict
                /\ call' = [c EXCEPT !.outcome = "authenticating"]
           ELSE /\ pc' = "idle" /\ tok' = r.val
                /\ call' = [c EXCEPT !.outcome = "welcome", !.oldTok = r.val,
                                     !.expired = is_expired(r.val)]
    /\ UNCHANGED <<clock, fs, umask, wpc, wtok, issued, nOps, apiLog, hist>>
    /\ UNCHANGED loginVars

\* perform_authentication() returned: menu(...) is shown
MainMenu ==
    /\ pc = "done"
    /\ pc' = "idle"
    /\ UNCHANGED storeVars
    /\ UNCHANGED loginVars

\* menu choice "5": cmd_logout(None); break  (main returns, the process ends)
MenuLogout ==
    /\ pc = "idle"
    /\ nOps < MaxOps
    /\ nOps' = nOps + 1
    /\ fs' = IF fs[CONFIG_PATH].exists THEN [fs EXCEPT ![CONFIG_PATH] = Absent] ELSE fs
    /\ call' = [NewCall("cmd_logout") EXCEPT !.outcome = "returned"]
    /\ pc' = "exited"
    /\ UNCHANGED <<clock, umask, wpc, wtok, tok, issued, apiLog, hist>>
    /\ UNCHANGED loginVars

\* menu choice "6": print("Goodbye!"); break
MenuExit ==
    /\ pc = "idle"
    /\ pc' = "exited"
    /\ UNCHANGED storeVars
    /\ UNCHANGED loginVars

InitApp ==
    /\ clock = 0
    /\ \E f \in AppFiles :
          /\ fs = [p \in Paths |-> IF p = CONFIG_PATH THEN f ELSE Absent]
          /\ hist = [oldExists |-> f.exists, oldText |-> f.text,
                     new |-> json_load(f.text).val]
    /\ umask = Umask022
    /\ wpc = "idle"
    /\ wtok = EmptyDict
    /\ pc = "main"
    /\ tok = EmptyDict
    /\ issued = 1
    /\ nOps = 0
    /\ call = NewCall("none")
    /\ apiLog = {}
    /\ LoginIdle

NextApp ==
    \/ MainRead
    \/ LoginEnv
    \/ \E v \in Verifiers : LoginPkce(v)
    \/ LoginFindPort
    \/ LoginBind
    \/ LoginStartThread
    \/ \E c \in Codes \cup {NoneS} : LoginBrowserReturns(c)
    \/ LoginBrowserRaises
    \/ LoginWaitSet
    \/ LoginWaitTimeout
    \/ LoginShutdown
    \/ LoginCheck
    \/ LoginExchangeFails
    \/ \E j \in Responses : LoginExchangeOK(j)
    \/ LoginNetRaises
    \/ LoginMeFails
    \/ LoginMeOK
    \/ LoginPersist
    \/ WtOpen
    \/ WtDump
    \/ WtReplace
    \/ \E ok \in BOOLEAN : WtChmod(ok)
    \/ LoginWritten
    \/ \E req \in Requests : do_GET(req)
    \/ Interrupt
    \/ ProcessExit
    \/ MainMenu
    \/ cmd_whoami
    \/ cmd_guilds
    \/ MenuLogout
    \/ MenuExit

SpecApp == InitApp /\ [][NextApp]_vars

(***************************************************************************)
(* Claims about the credential store and the token lifecycle (SpecStore).  *)
(***************************************************************************)
StoredText == fs[CONFIG_PATH].text

\* C5: atomic persistence.  Whatever statement of write_tokens the process has
\* reached or died at, the file at CONFIG_PATH is absent, or holds exactly the
\* complete bundle that was there when the write began, or exactly the complete
\* new bundle; never an empty, partial or mixed text.
C5_AtomicPersistence ==
    fs[CONFIG_PATH].exists =>
        /\ WellFormed(StoredText)
        /\ \/ hist.oldExists /\ StoredText = hist.oldText
           \/ StoredText = json_dump(hist.new)

\* the process died in the middle of json.dump: the temporary file holds a
\* partial text and CONFIG_PATH still holds the old bundle
C5_Witness ==
    /\ pc = "crashed"
    /\ wpc = "dump"
    /\ fs[TmpPath].exists
    /\ Len(fs[TmpPath].text) > 0
    /\ ~WellFormed(fs[TmpPath].text)
    /\ fs[CONFIG_PATH].exists
    /\ StoredText = hist.oldText
    /\ StoredText # json_dump(hist.new)

\* C6: owner-only permissions.  In every state in which a bundle exists at
\* CONFIG_PATH its permission bits give access to the owner only.
C6_OwnerOnlyPermissions ==
    fs[CONFIG_PATH].exists => OwnerOnly(fs[CONFIG_PATH].mode)

\* C7: consumers never use an expired token.  No provider API request of a
\* command carries the access token of a bundle that is Expired when it is sent.
C7_ConsumersNeverUseExpired ==
    \A e \in apiLog : ~e.expired

\* C8: with_access_token returns a valid token.  Whenever the consumer function
\* is handed a token, the bundle it belongs to is not expired at that moment
\* (stated for the calls during which the clock did not advance after the
\* expiry test, so that it does not rest on time passing inside the call).
C8_ReturnedTokenValid ==
    (call.op = "with_access_token" /\ call.fnCalled /\ call.checkTime = clock)
        => call.fnValid

\* C9: expired-token auto-refresh.  A call of with_access_token that finds the
\* stored bundle expired, with a refresh token in it, sends exactly one POST to
\* the token endpoint, and when it returns it has passed the access token of the
\* provider's answer, not the stored one, to the consumer (the consumer is not
\* called when the provider refuses the refresh).
C9_ExpiredAutoRefresh ==
    (call.op = "with_access_token" /\ call.expired /\ call.hadRT) =>
        /\ call.posts <= 1
        /\ call.outcome = "returned" =>
              /\ call.posts = 1
              /\ call.fnCalled
              /\ call.fnArg = Get(call.j, "access_token", None)
              /\ call.fnArg # call.oldTok["access_token"]
        /\ call.outcome = "RefreshFailed" => call.posts = 1 /\ ~call.fnCalled
        /\ call.fnCalled => call.outcome = "returned"

C9_Witness ==
    /\ call.op = "with_access_token"
    /\ call.expired
    /\ call.hadRT
    /\ call.outcome = "returned"
    /\ call.posts = 1
    /\ call.fnArg = call.j["access_token"]

\* C10: refresh rotation.  After a successful refresh the persisted bundle has
\* the access_token of the provider's answer, obtained_at is the time of the
\* refresh, and the refresh_token is the answer's when it carries one and the
\* prior one otherwise.
C10_RefreshRotation ==
    (call.status = StatusOK /\ (pc = "wat_fn" \/ call.outcome = "returned")) =>
        /\ read_tokens.kind = "dict"
        /\ read_tokens.val["access_token"] = call.j["access_token"]
        /\ read_tokens.val["obtained_at"] = call.refreshTime
        /\ read_tokens.val["refresh_token"] =
              IF HasKey(call.j, "refresh_token") THEN call.j["refresh_token"]
              ELSE call.oldTok["refresh_token"]

\* a refresh whose answer had no refresh_token has returned, later than it was sent
C10_Witness ==
    /\ call.status = StatusOK
    /\ call.outcome = "returned"
    /\ ~HasKey(call.j, "refresh_token")
    /\ clock > call.refreshTime
    /\ read_tokens.val["refresh_token"] = call.oldTok["refresh_token"]
    /\ read_tokens.val["access_token"] # call.oldTok["access_token"]


RefreshRaised == {"RefreshFailed", "NoRefreshToken"}

\* C11: refresh failure is terminal.  A with_access_token whose refresh raised
\* (the endpoint refused, or the bundle has no refresh_token) sent at most one
\* POST, did not call the consumer and left the store as it was; and no
\* command that runs right after such a failure sends the token of the still
\* Expired bundle to the provider.
C11_RefreshFailureTerminal ==
    /\ (call.op = "with_access_token" /\ call.outcome \in RefreshRaised) =>
          /\ ~call.fnCalled
          /\ call.posts = (IF call.outcome = "RefreshFailed" THEN 1 ELSE 0)
          /\ read_tokens.kind = "dict" /\ read_tokens.val = call.oldTok
    /\ \A e \in apiLog : e.prev \in RefreshRaised => ~e.expired
\* C12: expiry arithmetic.  is_expired answers False (the bundle is Valid)
\* exactly when now < obtained_at + expires_in - 60; with obtained_at = 1000
\* and expires_in = 3600 the bundle is Valid at 4539 and Expired at 4540 and
\* at 4541.
C12_ExpiryArithmetic ==
    (call.op = "is_expired" /\ call.outcome = "returned") =>
        LET oa == call.oldTok["obtained_at"]
            ei == call.oldTok["expires_in"]
            t == call.checkTime
        IN  /\ ~call.expired <=> (t < oa + ei - 60)
            /\ (oa = 1000 /\ ei = 3600 /\ t = 4539) => ~call.expired
            /\ (oa = 1000 /\ ei = 3600 /\ t = 4540) => call.expired
            /\ (oa = 1000 /\ ei = 3600 /\ t = 4541) => call.expired

\* is_expired has answered at the boundary second 4540 of the bundle obtained
\* at 1000 with a lifetime of 3600, one second after it had answered at 4539
C12_Witness ==
    /\ call.op = "is_expired"
    /\ call.oldTok["obtained_at"] = 1000
    /\ call.oldTok["expires_in"] = 3600
    /\ call.checkTime = 4540
    /\ call.expired
    /\ nOps >= 2

\* C14: logout then use.  cmd_logout returns from any store state (a valid or
\* expired bundle, or none) and leaves no file at CONFIG_PATH; and the
\* with_access_token that follows it raises the not-logged-in error at its
\* first statement, having sent nothing to the network and not called the
\* consumer.
C14_LogoutThenUse ==
    [][/\ cmd_logout => /\ ~fs'[CONFIG_PATH].exists
                        /\ call'.outcome = "returned"
       /\ (call.op = "cmd_logout" /\ WatRead) =>
             /\ call'.outcome = "NotLoggedIn"
             /\ call'.posts = 0
             /\ ~call'.fnCalled
             /\ pc' = "idle"
             /\ ~fs'[CONFIG_PATH].exists]_vars

\* a bundle was stored, logout removed it, and the with_access_token after it
\* has raised
C14_Witness ==
    /\ hist.oldExists
    /\ ~fs[CONFIG_PATH].exists
    /\ nOps = 2
    /\ call.op = "with_access_token"
    /\ call.outcome = "NotLoggedIn"
    /\ ~call.fnCalled

\* C28: the returned token equals the stored token.  Whenever with_access_token
\* has called the consumer, the access token it passed is the access_token of
\* the bundle that was in the credential store at that moment.
C28_ReturnedEqualsStored ==
    (call.op = "with_access_token" /\ call.fnCalled) =>
        /\ Truthy(call.fnStored)
        /\ call.fnArg = call.fnStored

\* the consumer was handed the token of a refresh, which the store held
C28_Witness ==
    /\ call.op = "with_access_token"
    /\ call.fnCalled
    /\ call.status = StatusOK
    /\ call.fnArg = call.j["access_token"]
    /\ call.fnArg = call.fnStored
    /\ call.fnArg # call.oldTok["access_token"]

\* the fields refresh assigns in `updated`
RefreshedKeys == {"access_token", "refresh_token", "expires_in", "token_type",
                  "scope", "obtained_at"}

\* C29: refresh frame.  After a successful refresh the persisted bundle has the
\* keys of the bundle that was refreshed and every field other than
\* access_token, refresh_token, expires_in, token_type, scope and obtained_at
\* has the value it had; after a refresh that raised, the file holds the text
\* of the bundle that was read.
C29_RefreshFrame ==
    /\ (call.status = StatusOK /\ (pc = "wat_fn" \/ call.outcome = "returned")) =>
          /\ read_tokens.kind = "dict"
          /\ DOMAIN read_tokens.val = DOMAIN call.oldTok \cup RefreshedKeys
          /\ \A k \in DOMAIN call.oldTok \ RefreshedKeys :
                read_tokens.val[k] = call.oldTok[k]
    /\ (call.op = "with_access_token" /\ call.outcome \in RefreshRaised) =>
          /\ fs[CONFIG_PATH].exists
          /\ StoredText = json_dump(call.oldTok)

\* a refresh has returned: the tokens are new, the identity snapshot, client_id
\* and redirect_uri are those of the login
C29_Witness ==
    /\ call.status = StatusOK
    /\ call.outcome = "returned"
    /\ read_tokens.val["access_token"] = call.j["access_token"]
    /\ read_tokens.val["discord_user"] = Me
    /\ read_tokens.val["client_id"] = call.oldTok["client_id"]
    /\ read_tokens.val["redirect_uri"] = call.oldTok["redirect_uri"]
    /\ read_tokens.val["scopes"] = call.oldTok["scopes"]

\* C30: the valid path is read-only.  A with_access_token whose expiry test
\* found the stored bundle valid sends no request to the token endpoint,
\* enters no write of the store and leaves the file as it read it, and the
\* token it passes to the consumer is the stored access_token.
C30_ValidPathReadOnly ==
    (/\ call.op = "with_access_token"
     /\ call.outcome \in {"running", "returned"}
     /\ pc # "wat_check"
     /\ ~call.expired) =>
        /\ pc \in {"wat_fn", "idle"}
        /\ call.posts = 0 /\ call.status = 0
        /\ wpc = "idle"
        /\ fs[CONFIG_PATH].exists /\ StoredText = json_dump(call.oldTok)
        /\ call.outcome = "returned" =>
              /\ call.fnCalled
              /\ call.fnArg = call.oldTok["access_token"]

\* a with_access_token on a valid bundle has returned
C30_Witness ==
    /\ call.op = "with_access_token"
    /\ call.outcome = "returned"
    /\ ~call.expired
    /\ call.fnCalled
    /\ call.fnArg = call.oldTok["access_token"]
    /\ call.posts = 0
    /\ issued = 1

(***************************************************************************)
(* Claims about the application start (SpecApp).                           *)
(***************************************************************************)
\* C13: a corrupt store degrades to absent.  read_tokens never raises to its
\* caller: no operation ends with the decoding error of json.load, and main()
\* that finds a file with a malformed text goes on as it does when no file
\* is there, to the authentication.
C13_CorruptStoreIsAbsent ==
    /\ call.outcome # "JSONDecodeError"
    /\ (call.op = "main" /\ hist.oldExists /\ ~WellFormed(hist.oldText)) =>
          call.outcome = "authenticating"

\* C20: start-up gating.  `tok` is what main() read at the start.  Whenever the
\* menu is shown after a start that found no bundle or an expired one, the
\* authorization has run and completed (its bundle is in the store); and after
\* a start that found a valid bundle no authorization is performed.
C20_StartupGating ==
    /\ (pc = "idle" /\ (tok = EmptyDict \/ is_expired(tok))) =>
          /\ loc.status = StatusOK
          /\ hist.new = LoginBundle(loc)
    /\ (call.op # "none" /\ tok # EmptyDict /\ ~is_expired(tok)) => loc = NoLocals


(***************************************************************************)
(* Claims about the login attempt and its callback server (Spec).          *)
(***************************************************************************)
CodeOnly(req) == req # NoReq /\ ~TruthyS(req.error) /\ TruthyS(req.code)

\* C1: first code wins.  If the first /callback request the server handled
\* carried a code (and no error), then after every later request that carries
\* a code the latched code is still the first one: whenever RESULT holds a
\* code, it is the code of the first request.
C1_FirstCodeWins ==
    (CodeOnly(firstCb) /\ TruthyS(RESULT.code)) => RESULT.code = firstCb.code

\* C2: error-first precedence.  If the first /callback request carried an
\* error, RESULT stays that error with no code populated, and the login never
\* goes on to the token exchange.
C2_ErrorFirstPrecedence ==
    (firstCb # NoReq /\ TruthyS(firstCb.error)) =>
        /\ RESULT = [code |-> NoneS, error |-> firstCb.error]
        /\ pc \notin {"exchange", "me", "persist", "login_write", "done"}

\* C3: the callback server is shut down on every exit path.  In no state in
\* which the login attempt has ended is serve_forever still running.
C3_ShutdownOnEveryExit ==
    pc \in Terminal => ~httpd.serving

\* C4: timeout cleanup.  When no callback arrived and the attempt has failed with
\* the timeout, the wait returned the timeout indication and the listening port
\* is released (nothing of this process is bound to it any more).
C4_TimeoutCleanup ==
    (pc = "exit_timeout" /\ firstCb = NoReq) =>
        /\ loc.waited = "timeout"
        /\ httpd.sock # "listening"

\* the positions of cmd_login from the token exchange on
Exchanging == {"exchange", "me", "persist", "login_write", "done"}

\* C15: state binding.  When the login goes on to the token exchange and the
\* server has handled a single request, a /callback, the code it exchanges came
\* in that callback, and the callback's state parameter is the state value of
\* this attempt (a callback with no state or another state is rejected).
C15_StateBinding ==
    (pc \in Exchanging /\ nReq = 1 /\ firstCb # NoReq) =>
        /\ loc.code = firstCb.code
        /\ firstCb.state = loc.state

\* C16: the redirect URI matches the bound port.  From the moment the
\* authorization URL is built until the token exchange is sent, the
\* redirect_uri that both carry names the port the callback server listens on,
\* whether that is the preferred port or the one the OS assigned instead.
C16_RedirectUriMatchesPort ==
    pc \in {"browser", "wait", "shutdown", "check", "exchange"} =>
        /\ httpd.sock = "listening"
        /\ UriPort(loc.redirect_uri) = httpd.port

\* the credential store is as the login attempt found it
StoreUntouched ==
    /\ wpc = "idle"
    /\ fs[TmpPath] = Absent
    /\ fs[CONFIG_PATH].exists = hist.oldExists
    /\ fs[CONFIG_PATH].text = hist.oldText

\* C17: authorization error path.  Once a callback with error=<code> has been
\* handled, the attempt sends no token exchange and writes nothing to the
\* store, at no later time (nothing retries it); and when cmd_login comes to
\* its decision it fails with the authorization failure that carries the
\* provider's code.  An attempt fails that way only for an error a callback
\* carried.
C17_AuthorizationError ==
    /\ TruthyS(RESULT.error) =>
          /\ pc \notin Exchanging
          /\ loc.posts = 0
          /\ StoreUntouched
          /\ pc \in {"exit_autherror", "exit_timeout"} =>
                (pc = "exit_autherror" /\ loc.raised = RESULT.error)
    /\ pc = "exit_autherror" =>
          /\ RESULT.error \in Errors
          /\ loc.raised = RESULT.error

\* the attempt has failed with the provider's error although a callback had
\* delivered a code as well; a credential file was there before the attempt
C17_Witness ==
    /\ pc = "exit_autherror"
    /\ loc.raised = "access_denied"
    /\ TruthyS(RESULT.code)
    /\ loc.posts = 0
    /\ fs[CONFIG_PATH].exists
    /\ StoreUntouched

\* C18: timeout is distinguished from authorization error.  cmd_login reports
\* the timeout exactly when the wait elapsed and the server handled no
\* callback: an attempt ends with the timeout report only when its wait had
\* elapsed (no callback had set the event), an attempt whose wait elapsed and
\* that received no callback ends with the timeout report, and the report of
\* an authorization error always follows a callback.
C18_TimeoutDistinguished ==
    /\ pc = "exit_timeout" => loc.waited = "timeout"
    /\ (pc \in {"exit_autherror", "exit_timeout"} \cup Exchanging
           /\ loc.waited = "timeout" /\ firstCb = NoReq) => pc = "exit_timeout"
    /\ pc = "exit_autherror" => (firstCb # NoReq /\ TruthyS(RESULT.error))

\* C19: token exchange failure.  When the token endpoint answers the exchange
\* with a status other than 200, the attempt ends there with the failure that
\* carries that status, having sent exactly one exchange request, and the
\* credential store is as the attempt found it, also after the process has
\* ended.
C19_ExchangeFailure ==
    /\ loc.raised = "Token exchange failed" =>
          /\ pc \in {"exit_exchange", "exited"}
          /\ loc.status = StatusBad
          /\ loc.posts = 1
          /\ loc.j = EmptyDict
          /\ StoreUntouched
    /\ (loc.status # 0 /\ loc.status # StatusOK) =>
          loc.raised = "Token exchange failed"

\* the exchange of a code was refused; the bundle of an earlier login is
\* still in the store
C19_Witness ==
    /\ pc = "exit_exchange"
    /\ loc.status = StatusBad
    /\ loc.posts = 1
    /\ TruthyS(loc.code)
    /\ fs[CONFIG_PATH].exists
    /\ StoredText = json_dump(Bundle(1, 1, SKEW + 1, 0))

\* C21: missing configuration fails fast.  When CLIENT_ID or REDIRECT_URI is
\* not in the environment the login attempt ends at its first statements with
\* the KeyError: no verifier or challenge was generated, no socket was bound,
\* no server thread started, the browser was not opened, no request was sent
\* or handled, and the credential store is as it was.
C21_MissingConfigFailsFast ==
    ~({"CLIENT_ID", "REDIRECT_URI"} \subseteq environ) =>
        /\ pc \in {"login", "exc", "exited"}
        /\ pc # "login" => loc.raised = "KeyError"
        /\ loc.verifier = NoneS /\ loc.challenge = NoneS
        /\ httpd = [sock |-> "none", port |-> 0, serving |-> FALSE, busy |-> FALSE]
        /\ DONE_EVENT = "None"
        /\ loc.url_code = NoneS /\ loc.waited = NoneS
        /\ loc.posts = 0 /\ nReq = 0
        /\ StoreUntouched

\* REDIRECT_URI is missing, the attempt has failed, a bundle is in the store
C21_Witness ==
    /\ environ = {"CLIENT_ID"}
    /\ pc = "exc"
    /\ loc.raised = "KeyError"
    /\ fs[CONFIG_PATH].exists
    /\ StoreUntouched

\* C22: callback result shape.  Whenever the completion event is set, exactly
\* one of RESULT's code and error is populated.
C22_ResultShape ==
    DONE_EVENT = "set" => (TruthyS(RESULT.code) # TruthyS(RESULT.error))

\* C23: either source ends the wait.  Stated for the attempts in which only
\* the browser driver can deliver (the callback server listens on another
\* port than the redirect URI names): once the driver has returned the final
\* URL with a code, the flow does not sit out the 300 s of event.wait and the
\* login goes on with that code instead of failing with the timeout.
C23_EitherSourceEndsWait ==
    (TruthyS(loc.url_code) /\ httpd.port # UriPort(loc.redirect_uri)) =>
        /\ loc.waited # "timeout"
        /\ pc # "exit_timeout"

\* C24: shutdown never hangs.  Whenever cmd_login has called httpd.shutdown()
\* the call returns and the login goes on to look at the result, whatever the
\* server received or did not receive before.
C24_ShutdownNeverHangs ==
    (pc = "shutdown") ~> (pc = "check")

\* the keys of a bundle whose values are strings
StringKeys == {"token_type", "scope", "client_id", "redirect_uri"}

\* C25: PKCE binding.  The challenge of an attempt is gen_code_challenge of its
\* verifier; the code_verifier sent in the token exchange is that verifier, so
\* the code_challenge of the authorization URL is gen_code_challenge of what
\* the exchange sends; and no file of the credential store holds the verifier,
\* under any key.
C25_PkceBinding ==
    /\ TruthyS(loc.verifier) =>
          /\ loc.verifier \in Verifiers
          /\ loc.challenge = gen_code_challenge(loc.verifier)
    /\ loc.sent # EmptyDict =>
          /\ loc.url # EmptyDict
          /\ loc.sent.code_verifier = loc.verifier
          /\ loc.url.code_challenge = gen_code_challenge(loc.sent.code_verifier)
    /\ \A p \in Paths : \A i \in 1..Len(fs[p].text) :
          /\ fs[p].text[i][1] \notin {"code_verifier", "verifier"}
          /\ fs[p].text[i][1] \in StringKeys => fs[p].text[i][2] # loc.verifier

\* a login with the second verifier has completed and its bundle is stored
C25_Witness ==
    /\ pc = "done"
    /\ loc.verifier = "v2"
    /\ loc.sent.code_verifier = "v2"
    /\ loc.url.code_challenge = gen_code_challenge("v2")
    /\ fs[CONFIG_PATH].exists
    /\ StoredText = json_dump(LoginBundle(loc))

\* C26: non-callback requests leave the latch untouched.  Every step in which
\* the server handles a GET to a path other than /callback answers 404 and
\* leaves RESULT and the completion event as they were, whether or not a
\* result was latched before.
C26_NonCallbackFrame ==
    [][\A req \in Requests :
          (req.path # "/callback" /\ do_GET(req)) =>
              /\ lastResp' = 404
              /\ RESULT' = RESULT
              /\ DONE_EVENT' = DONE_EVENT]_vars

\* a request to another path was answered 404 after a code had been latched
C26_Witness ==
    /\ lastResp = 404
    /\ nReq = 2
    /\ firstCb # NoReq
    /\ RESULT.code = firstCb.code
    /\ TruthyS(RESULT.code)
    /\ DONE_EVENT = "set"

\* C27: login persists only after full success.  Nothing of the credential
\* store is touched before write_tokens is entered, which happens only after
\* the exchange answered 200 and the user lookup succeeded; and an attempt
\* whose user lookup was refused ends there, with the store as it found it.
C27_PersistOnlyAfterSuccess ==
    /\ ~StoreUntouched =>
          /\ pc \in {"login_write", "done"}
          /\ loc.status = StatusOK
          /\ loc.raised = NoneS
          /\ hist.new = LoginBundle(loc)
    /\ loc.raised = "User lookup failed" =>
          /\ pc \in {"exit_lookup", "exited"}
          /\ loc.status = StatusOK
          /\ StoreUntouched

\* the exchange issued tokens, the user lookup was refused, and the bundle of
\* an earlier login is still the stored one
C27_Witness ==
    /\ pc = "exit_lookup"
    /\ loc.status = StatusOK
    /\ loc.j # EmptyDict
    /\ issued = 2
    /\ fs[CONFIG_PATH].exists
    /\ StoredText = json_dump(Bundle(1, 1, SKEW + 1, 0))
    /\ fs[TmpPath] = Absent

====
